---- MODULE Spec2Model ----
(***************************************************************************)
(* featuretools/utils/entity_utils.py: semantic type inference, storage    *)
(* conversion and per-column statistics of a tabular dataset.              *)
(*                                                                         *)
(* A dataset (DataFrame) is a record                                       *)
(*   [lazy, index, columns, data]                                          *)
(* lazy    : TRUE for a dask (partitioned) frame, FALSE for a pandas one   *)
(* index   : the row labels, one per row                                   *)
(* columns : the column names in column order                              *)
(* data    : column name -> [dtype |-> storage type name, vals |-> cells]  *)
(* A cell is a record [k |-> kind, v |-> integer payload].                 *)
(***************************************************************************)
EXTENDS Integers, Sequences, FiniteSets, TLC

VARIABLES df, call, ret

vars == <<df, call, ret>>

(***************************************************************************)
(* Bounds of the model.                                                    *)
(***************************************************************************)
MaxRows == 2
MaxWideRows == 1

(***************************************************************************)
(* Cells.                                                                  *)
(***************************************************************************)
NaN == [k |-> "nan", v |-> 0]            \* np.nan / None / NaT
Num(n) == [k |-> "num", v |-> n]         \* a number
NumStr(n) == [k |-> "numstr", v |-> n]   \* the digit string of n, "1"
Str(n) == [k |-> "str", v |-> n]         \* a non-numeric, non-date string of n letters
DateStr(t) == [k |-> "datestr", v |-> t] \* a string that parses as timestamp t
Ts(t) == [k |-> "ts", v |-> t]           \* a native timestamp
Td(t) == [k |-> "td", v |-> t]           \* a native time difference
Bool(b) == [k |-> "bool", v |-> b]       \* True is Bool(1), False is Bool(0)
Pair(i) == [k |-> "pair", v |-> i]       \* a (lat, long) tuple
NanPair == [k |-> "nanpair", v |-> 0]    \* the tuple (np.nan, np.nan)
Raises == [k |-> "raises", v |-> 0]      \* a dask value whose computation raises

PyTrue == Bool(1)
PyFalse == Bool(0)

Range(s) == {s[i] : i \in DOMAIN s}

\* Series.isnull / notnull, element by element: a tuple is never null.
IsNull(c) == c.k = "nan"

\* Series.dropna()
RECURSIVE DropNa(_)
DropNa(vals) ==
    IF vals = <<>> THEN <<>>
    ELSE IF IsNull(Head(vals)) THEN DropNa(Tail(vals))
         ELSE <<Head(vals)>> \o DropNa(Tail(vals))

\* Series.hasnans
HasNans(vals) == \E i \in DOMAIN vals : IsNull(vals[i])

(***************************************************************************)
(* The variable type taxonomy (featuretools.variable_types).               *)
(***************************************************************************)
VariableTypes ==
    {"Unknown", "Boolean", "Numeric", "Datetime", "Discrete", "Categorical",
     "Text", "LatLong"}

\* issubclass(t, u)
IsSubclass(t, u) ==
    \/ t = u
    \/ u = "Discrete" /\ t \in {"Categorical", "Text"}

\* PandasTypes._pandas_numerics, ._categorical, ._pandas_datetimes
PandasNumerics == {"int16", "int32", "int64", "float16", "float32", "float64"}
PandasCategorical == "category"
PandasDatetimes == {"<M8[ns]", "datetime64[ns]"}

(***************************************************************************)
(* Element-wise conversions of pandas / dask.                              *)
(***************************************************************************)
\* pd.to_numeric(errors='coerce') on one value: numbers and digit strings
\* become numbers, native booleans become 0/1, anything else becomes NaN.
ToNumericCell(c) ==
    CASE c.k = "num" -> c
      [] c.k = "numstr" -> Num(c.v)
      [] c.k = "bool" -> Num(c.v)
      [] c.k = "raises" -> c
      [] OTHER -> NaN

\* the storage type pd.to_numeric gives its result
ToNumericDtype(vals) ==
    IF \A i \in DOMAIN vals : vals[i].k = "num" THEN "int64" ELSE "float64"

\* pd.to_numeric(series, errors='coerce'): a series of numeric storage
\* (booleans included) is returned as it is, the rest is parsed by value.
NumericStorage == {"int64", "float64", "bool"}

\* a timestamp or time difference viewed as int64; NaT is the smallest int64
NaTView == Num(-1)
ViewInt64(c) ==
    IF c.k = "nan" THEN NaTView ELSE IF c.k = "raises" THEN c ELSE Num(c.v)
TimeStorage == {"datetime64[ns]", "timedelta64[ns]"}

ToNumericCoerce(col) ==
    IF col.dtype \in NumericStorage THEN col
    ELSE IF col.dtype \in TimeStorage
    THEN [dtype |-> "int64", vals |-> [i \in DOMAIN col.vals |-> ViewInt64(col.vals[i])]]
    ELSE LET out == [i \in DOMAIN col.vals |-> ToNumericCell(col.vals[i])]
         IN  [dtype |-> ToNumericDtype(out), vals |-> out]

\* whether pd.to_numeric(errors='raise') accepts the value
NumericParses(c) == c.k \in {"num", "numstr", "bool", "nan"}

\* whether pd.to_datetime(errors='raise') accepts the value
DatetimeParses(c) == c.k \in {"datestr", "ts", "nan", "num"}

\* pd.to_datetime on one value; dd.to_datetime is evaluated lazily, and a
\* value it does not accept raises when the column is computed
ToDatetimeCell(c) ==
    IF c.k = "nan" THEN NaN ELSE IF DatetimeParses(c) THEN Ts(c.v) ELSE Raises

\* pd.to_datetime(series), dd.to_datetime(series)
ToDatetime(col) ==
    [dtype |-> "datetime64[ns]",
     vals |-> [i \in DOMAIN col.vals |-> ToDatetimeCell(col.vals[i])]]

\* Python's == and hash on dictionary keys: True == 1 and False == 0.
PyKey(c) == IF c.k = "bool" THEN Num(c.v) ELSE c
PyEq(a, b) == PyKey(a) = PyKey(b)

\* map_dict = {true_val: True, false_val: False, True: True, False: False};
\* map_dict.get(c, NaN): in a dict literal a later equal key overwrites.
MapDictGet(c, kwargs) ==
    CASE c.k = "raises" -> c
      [] PyEq(c, PyFalse) -> PyFalse
      [] PyEq(c, PyTrue) -> PyTrue
      [] PyEq(c, kwargs.false_val) -> PyFalse
      [] PyEq(c, kwargs.true_val) -> PyTrue
      [] OTHER -> NaN

\* .astype(np.bool) on one value: bool(NaN) is True.
AsTypeBool(c) ==
    CASE c.k = "bool" -> c
      [] c.k = "raises" -> c
      [] c.k = "nan" -> PyTrue
      [] c.k = "num" -> IF c.v = 0 THEN PyFalse ELSE PyTrue
      [] OTHER -> PyTrue

\* series.map(map_dict).astype(np.bool)
MapToBool(col, kwargs) ==
    [dtype |-> "bool",
     vals |-> [i \in DOMAIN col.vals |-> AsTypeBool(MapDictGet(col.vals[i], kwargs))]]

\* kwargs.get("true_val", True), kwargs.get("false_val", False)
DefaultKwargs == [true_val |-> PyTrue, false_val |-> PyFalse]

(***************************************************************************)
(* convert_variable_data(df, column_id, new_type, **kwargs)                *)
(* The result is [df, err]: the dataset as the call leaves it (the column  *)
(* is assigned in place) and the exception raised, "none" for a return.    *)
(***************************************************************************)
NonNull(col) == Len(DropNa(col.vals))

SetColumn(d, c, col) == [d EXCEPT !.data[c] = col]

\* lines 159-167: the lossy-conversion guard of the pandas branch
LossyNumeric(orig_nonnull, nonnull) == nonnull = 0 /\ orig_nonnull # 0

convert_variable_data(d, column_id, new_type, kwargs) ==
    LET col == d.data[column_id]
        empty == IF ~d.lazy THEN Len(col.vals) = 0 ELSE FALSE
    IN  IF empty THEN [df |-> d, err |-> "none"]
        ELSE IF new_type = "Numeric" THEN
            IF d.lazy
            THEN [df |-> SetColumn(d, column_id, ToNumericCoerce(col)), err |-> "none"]
            ELSE LET orig_nonnull == NonNull(col)
                     new == ToNumericCoerce(col)
                     nonnull == NonNull(new)
                 IN  [df |-> SetColumn(d, column_id, new),
                      err |-> IF LossyNumeric(orig_nonnull, nonnull)
                              THEN "TypeError" ELSE "none"]
        ELSE IF IsSubclass(new_type, "Datetime") THEN
            IF d.lazy \/ \A i \in DOMAIN col.vals : DatetimeParses(col.vals[i])
            THEN [df |-> SetColumn(d, column_id, ToDatetime(col)), err |-> "none"]
            ELSE [df |-> d, err |-> "ValueError"]
        ELSE IF new_type = "Boolean" THEN
            [df |-> SetColumn(d, column_id, MapToBool(col, kwargs)), err |-> "none"]
        ELSE IF ~IsSubclass(new_type, "Discrete") THEN
            [df |-> d, err |-> "Exception"]
        ELSE [df |-> d, err |-> "none"]

(***************************************************************************)
(* replace_latlong_nan(values): values.where(values.notnull(), other) with *)
(* other = pd.Series([(nan, nan)] * len(values)), whose index is 0..n-1;   *)
(* where() aligns other on the row labels of values, and a label other     *)
(* does not have reads as NaN.                                             *)
(***************************************************************************)
OtherAt(label, n) == IF label \in 0..(n - 1) THEN NanPair ELSE NaN

\* the storage type of the result of where(): a tuple is held as an object
WhereDtype(dtype, vals) ==
    IF \E i \in DOMAIN vals : vals[i] = NanPair THEN "object" ELSE dtype

replace_latlong_nan(vals, index) ==
    [i \in DOMAIN vals |->
        IF ~IsNull(vals[i]) THEN vals[i] ELSE OtherAt(index[i], Len(vals))]

(***************************************************************************)
(* convert_all_variable_data(df, variable_types)                           *)
(* variable_types is the sequence of the dict's items [id, type, args].    *)
(* The result is [df, err, warned, calls]: warned is the set of columns a  *)
(* warning was emitted for, calls the columns handed to                    *)
(* convert_variable_data, in order.                                        *)
(***************************************************************************)
NumericNeedsConversion_NoSkip(desired_type, current_type) ==
    IsSubclass(desired_type, "Numeric")

NumericNeedsConversion(desired_type, current_type) ==
    IsSubclass(desired_type, "Numeric") /\ current_type \notin PandasNumerics

DiscreteNeedsConversion(desired_type, current_type) ==
    IsSubclass(desired_type, "Discrete") /\ current_type \notin {PandasCategorical}

DatetimeNeedsConversion(desired_type, current_type) ==
    IsSubclass(desired_type, "Datetime") /\ current_type \notin PandasDatetimes

\* lines 120-125, 127-132, 134-139: one guarded call of convert_variable_data
ConvertIf(r, needed, e) ==
    IF r.err # "none" \/ ~needed THEN r
    ELSE LET c == convert_variable_data(r.df, e.id, e.type, e.args)
         IN  [r EXCEPT !.df = c.df, !.err = c.err, !.calls = Append(r.calls, e.id)]

\* lines 141-144
FillLatLong(r, e) ==
    IF r.err # "none" THEN r
    ELSE IF IsSubclass(e.type, "LatLong") /\ ~r.df.lazy
            /\ HasNans(r.df.data[e.id].vals)
    THEN LET vals == replace_latlong_nan(r.df.data[e.id].vals, r.df.index)
         IN  [r EXCEPT
                !.df = SetColumn(r.df, e.id,
                         [dtype |-> WhereDtype(r.df.data[e.id].dtype, vals), vals |-> vals]),
                !.warned = r.warned \cup {e.id}]
    ELSE r

\* lines 110-144: the body of the loop for one item
ConvertItem(r, e) ==
    IF r.err # "none" THEN r
    ELSE IF e.id \notin Range(r.df.columns) THEN [r EXCEPT !.err = "LookupError"]
    ELSE LET current_type == r.df.data[e.id].dtype
             r1 == ConvertIf(r, NumericNeedsConversion(e.type, current_type), e)
             r2 == ConvertIf(r1, DiscreteNeedsConversion(e.type, current_type), e)
             r3 == ConvertIf(r2, DatetimeNeedsConversion(e.type, current_type), e)
         IN  FillLatLong(r3, e)

RECURSIVE ConvertItems(_, _)
ConvertItems(r, items) ==
    IF items = <<>> THEN r
    ELSE ConvertItems(ConvertItem(r, Head(items)), Tail(items))

convert_all_variable_data(d, variable_types) ==
    ConvertItems([df |-> d, err |-> "none", warned |-> {}, calls |-> <<>>],
                 variable_types)

(***************************************************************************)
(* col_is_datetime(col).  The result is [is, parsed]: the value returned   *)
(* and whether a numeric or timestamp parse was attempted.                 *)
(***************************************************************************)
\* col.dtype.name.find('datetime') > -1
DatetimeNamed_Timestamp(dtype) == dtype \in {"timestamp"}

DatetimeNamed(dtype) == dtype \in {"datetime64[ns]"}

\* col.dtype.name.find('str') > -1 or col.dtype.name.find('object') > -1
StrOrObjectNamed(dtype) == dtype \in {"object", "str"}

\* len(col) and isinstance(col.head(1).iloc[0], datetime)
FirstIsDatetime(col) == Len(col.vals) > 0 /\ col.vals[1].k = "ts"

\* pd.to_numeric(dropped_na, errors='raise') does not raise
NumericParsesAll(dtype, vals) ==
    \/ dtype \in NumericStorage \cup TimeStorage
    \/ \A i \in DOMAIN vals : NumericParses(vals[i])

\* pd.to_datetime(dropped_na, errors='raise') does not raise
DatetimeParsesAll(vals) == \A i \in DOMAIN vals : DatetimeParses(vals[i])

col_is_datetime(col) ==
    IF DatetimeNamed(col.dtype) \/ FirstIsDatetime(col)
    THEN [is |-> TRUE, parsed |-> FALSE]
    ELSE LET dropped_na == DropNa(col.vals)
         IN  IF NumericParsesAll(col.dtype, dropped_na)
             THEN [is |-> FALSE, parsed |-> TRUE]
             ELSE IF StrOrObjectNamed(col.dtype)
             THEN [is |-> DatetimeParsesAll(dropped_na), parsed |-> TRUE]
             ELSE [is |-> FALSE, parsed |-> TRUE]

(***************************************************************************)
(* infer_variable_types(df, link_vars, variable_types, time_index,         *)
(*                      secondary_time_index)                              *)
(* variable_types is the set of the keys of the explicit map,              *)
(* secondary_time_index the sequence of the keys of that dict, time_index  *)
(* a column name or None.  rng gives, per column, the random permutation   *)
(* of the rows Series.sample draws from: sample(k) is its first k rows.    *)
(* The result is [err, inferred_types, parsed, sampled]: parsed and        *)
(* sampled are the columns a parse was attempted on or a sample drawn of.  *)
(***************************************************************************)
None == "None"
SampleCap == 10000
TextLength == 50

Min(a, b) == IF a < b THEN a ELSE b

\* Series.sample(k)
Sample(vals, k, perm) == [i \in 1..k |-> vals[perm[i]]]

\* Series.nunique(dropna=False), len(Series.unique())
NUnique(vals) == Cardinality(Range(vals))

\* sample.str.len(): the length of a string, NaN for anything else
IsString(c) == c.k \in {"str", "numstr", "datestr"}
StrLen(c) == CASE c.k = "str" -> c.v [] c.k = "numstr" -> 1 [] c.k = "datestr" -> 10

RECURSIVE SumLen(_)
SumLen(vals) ==
    IF vals = <<>> THEN 0
    ELSE (IF IsString(Head(vals)) THEN StrLen(Head(vals)) ELSE 0) + SumLen(Tail(vals))

CountStrings(vals) == Cardinality({i \in DOMAIN vals : IsString(vals[i])})

\* avg_length > 50, with avg_length the mean of the lengths that are not
\* NaN; the mean of no length is NaN, and NaN > 50 is False
AvgLengthAbove(sample) ==
    CountStrings(sample) > 0 /\ SumLen(sample) > TextLength * CountStrings(sample)

\* percent_unique < .05, percent_unique = sample.size / len(unique)
PercentUniqueBelow_Flipped(size, nunique) == ~(20 * size < nunique)

PercentUniqueBelow(size, nunique) == 20 * size < nunique

\* pdtypes.is_categorical_dtype, pdtypes.is_numeric_dtype
IsCategoricalDtype(dtype) == dtype = "category"
IsNumericDtype(dtype) == dtype \in PandasNumerics \cup {"bool"}

\* lines 38-40
VidsToAssumeDatetime(time_index, secondary_time_index) ==
    {time_index} \cup
        (IF Len(secondary_time_index) # 0 THEN {secondary_time_index[1]} ELSE {})

\* line 55: variable in link_vars
IsLinked_Negated(variable, link_vars) == variable \notin link_vars

IsLinked(variable, link_vars) == variable \in link_vars

Verdict(type, parsed, sampled) == [type |-> type, parsed |-> parsed, sampled |-> sampled]

\* lines 49-99: the cascade for one column that has no explicit type;
\* inferred_type is the value the variable holds when the column is reached
Classify(col, variable, h, perm, inferred_type) ==
    IF variable \in VidsToAssumeDatetime(h.time_index, h.secondary_time_index) THEN
        LET dt == col_is_datetime(col)
        IN  Verdict(IF dt.is THEN "Datetime" ELSE "Numeric", dt.parsed, FALSE)
    ELSE IF IsLinked(variable, h.link_vars) THEN Verdict("Categorical", FALSE, FALSE)
    ELSE IF col.dtype = "object" THEN
        IF Len(col.vals) = 0 THEN Verdict("Categorical", FALSE, FALSE)
        ELSE LET dt == col_is_datetime(col)
             IN  IF dt.is THEN Verdict("Datetime", dt.parsed, FALSE)
                 ELSE LET sample == Sample(col.vals, Min(SampleCap, Len(col.vals)), perm)
                      IN  Verdict(IF AvgLengthAbove(sample) THEN "Text" ELSE "Categorical",
                                  dt.parsed, TRUE)
    ELSE IF col.dtype = "bool" THEN Verdict("Boolean", FALSE, FALSE)
    ELSE IF IsCategoricalDtype(col.dtype) THEN Verdict("Categorical", FALSE, FALSE)
    ELSE IF IsNumericDtype(col.dtype) THEN Verdict("Numeric", FALSE, FALSE)
    ELSE LET dt == col_is_datetime(col)
         IN  IF dt.is THEN Verdict("Datetime", dt.parsed, FALSE)
             ELSE IF Len(col.vals) # 0 THEN
                 LET sample == Sample(col.vals, Min(SampleCap, NUnique(col.vals)), perm)
                     unique == NUnique(sample)
                 IN  Verdict(IF PercentUniqueBelow(Len(sample), unique)
                             THEN "Categorical" ELSE "Numeric",
                             dt.parsed, TRUE)
             ELSE Verdict(inferred_type, dt.parsed, FALSE)

\* lines 42-101: the body of the loop for one column
InferColumn(acc, d, variable, h, rng) ==
    IF acc.err # "none" THEN acc
    ELSE IF variable \in h.variable_types THEN acc
    ELSE IF d.lazy THEN [acc EXCEPT !.err = "ValueError"]
    ELSE LET v == Classify(d.data[variable], variable, h, rng[variable], acc.inferred_type)
         IN  [err |-> "none",
              inferred_type |-> v.type,
              inferred_types |-> acc.inferred_types \cup {<<variable, v.type>>},
              parsed |-> IF v.parsed THEN acc.parsed \cup {variable} ELSE acc.parsed,
              sampled |-> IF v.sampled THEN acc.sampled \cup {variable} ELSE acc.sampled]

RECURSIVE InferColumns(_, _, _, _, _)
InferColumns(acc, d, columns, h, rng) ==
    IF columns = <<>> THEN acc
    ELSE InferColumns(InferColumn(acc, d, Head(columns), h, rng), d, Tail(columns), h, rng)

\* inferred_types is the set of the items (column, type) of the dict returned
infer_variable_types(d, h, rng) ==
    InferColumns([err |-> "none", inferred_type |-> "Unknown", inferred_types |-> {},
                  parsed |-> {}, sampled |-> {}],
                 d, d.columns, h, rng)

(***************************************************************************)
(* The datasets and arguments the operations are called with.              *)
(***************************************************************************)
ColNames == <<"a", "b">>

\* the values a column of each storage type may hold
CellsOf(dtype) ==
    CASE dtype = "object" -> {NaN, NumStr(1), Str(1), Str(2), Pair(1), DateStr(1)}
      [] dtype = "int64" -> {Num(0), Num(1)}
      [] dtype = "float64" -> {Num(1), NaN}
      [] dtype = "bool" -> {PyFalse, PyTrue}
      [] dtype = "category" -> {Str(1), NaN}
      [] dtype = "datetime64[ns]" -> {Ts(1), NaN}
      [] dtype = "timedelta64[ns]" -> {Td(1), Td(2), NaN}

Dtypes ==
    {"object", "int64", "float64", "bool", "category", "datetime64[ns]",
     "timedelta64[ns]"}

SeqsOf(S, n) == [1..n -> S]

Columns(n) ==
    UNION {{[dtype |-> t, vals |-> v] : v \in SeqsOf(CellsOf(t), n)} : t \in Dtypes}

\* the default RangeIndex 0..n-1
RangeIndex(n) == [i \in 1..n |-> i - 1]

\* row labellings: increasing labels drawn from 0..n
Labellings(n) ==
    {ix \in SeqsOf(0..n, n) : \A i \in 1..n : \A j \in 1..n : i < j => ix[i] < ix[j]}

Frame(lazy, index, names, data) ==
    [lazy |-> lazy, index |-> index, columns |-> names, data |-> data]

\* datasets of the single column "a": pandas frames under every labelling,
\* dask frames under the default one
ConvFrames ==
    UNION {
        {Frame(FALSE, ix, <<"a">>, [c \in {"a"} |-> col])
            : ix \in Labellings(n), col \in Columns(n)}
        \cup {Frame(TRUE, RangeIndex(n), <<"a">>, [c \in {"a"} |-> col])
            : col \in Columns(n)}
        : n \in 0..MaxRows}

\* true_val / false_val labels
KwargsSet ==
    {[true_val |-> t, false_val |-> f] : t \in {PyTrue, Str(1)}, f \in {PyFalse, Str(2)}}

Item(id, type) == [id |-> id, type |-> type, args |-> DefaultKwargs]

\* type assignment maps: one for column "a", with or without an item for the
\* column "b" the dataset does not have
TypeMaps ==
    {<<>>, <<Item("b", "Numeric")>>}
    \cup {<<Item("a", t)>> : t \in VariableTypes}
    \cup {<<Item("a", t), Item("b", "Numeric")>> : t \in VariableTypes}
    \cup {<<Item("b", "Numeric"), Item("a", t)>> : t \in VariableTypes}

NoCall == [op |-> "none"]
NoRet == [of |-> "none", err |-> "none"]

Init ==
    /\ df \in ConvFrames
    /\ call = NoCall
    /\ ret = NoRet

\* An exception propagates to the caller at once (nothing catches it), so
\* a further call is made only after a call that returned.
Returned == ret.err = "none"

ConvertVariableData ==
    /\ Returned
    /\ \E column_id \in Range(df.columns), new_type \in VariableTypes, kwargs \in KwargsSet :
           /\ new_type # "Boolean" => kwargs = DefaultKwargs
           /\ LET r == convert_variable_data(df, column_id, new_type, kwargs)
              IN  /\ df' = r.df
                  /\ ret' = [of |-> "convert_variable_data", err |-> r.err]
           /\ call' = [op |-> "convert_variable_data", before |-> df,
                       column_id |-> column_id, new_type |-> new_type, kwargs |-> kwargs]

ConvertAllVariableData ==
    /\ Returned
    /\ \E variable_types \in TypeMaps :
           /\ LET r == convert_all_variable_data(df, variable_types)
              IN  /\ df' = r.df
                  /\ ret' = [of |-> "convert_all_variable_data", err |-> r.err,
                             warned |-> r.warned, calls |-> r.calls]
           /\ call' = [op |-> "convert_all_variable_data", before |-> df,
                       variable_types |-> variable_types]

Next == ConvertVariableData \/ ConvertAllVariableData

Spec == Init /\ [][Next]_vars

(***************************************************************************)
(* Type inference: the datasets and hints infer_variable_types is called   *)
(* with, and the call.                                                     *)
(***************************************************************************)
InferCellsOf(dtype) ==
    CASE dtype = "object" -> {NaN, NumStr(1), DateStr(1), Str(60), Ts(1)}
      [] dtype = "int64" -> {Num(1)}
      [] dtype = "bool" -> {PyTrue}
      [] dtype = "category" -> {Str(1)}
      [] dtype = "datetime64[ns]" -> {Ts(1), NaN}
      [] dtype = "timedelta64[ns]" -> {Td(1), Td(2), NaN}

InferDtypes == Dtypes \ {"float64"}

InferColumnsOf(n, dtypes) ==
    UNION {{[dtype |-> t, vals |-> v] : v \in SeqsOf(InferCellsOf(t), n)} : t \in dtypes}

\* columns of n rows that hold one value in every row
UniformColumnsOf(n, dtypes) ==
    {col \in InferColumnsOf(n, dtypes) : Cardinality(Range(col.vals)) <= 1}

TwoColumns(lazy, n) ==
    {Frame(lazy, RangeIndex(n), <<"a", "b">>, [c \in {"a", "b"} |-> IF c = "a" THEN x ELSE y])
        : x \in UniformColumnsOf(n, InferDtypes), y \in UniformColumnsOf(n, InferDtypes)}

\* pandas datasets of one column "a" with any values in up to MaxRows rows,
\* pandas datasets of two columns "a", "b" with one value per column in up
\* to MaxWideRows rows, and dask datasets of two columns (inference reads
\* no row of a dask dataset: they have none here)
InferFrames ==
    UNION {{Frame(FALSE, RangeIndex(n), <<"a">>, [c \in {"a"} |-> x])
              : x \in InferColumnsOf(n, InferDtypes)}
           : n \in 0..MaxRows}
    \cup UNION {TwoColumns(FALSE, n) : n \in 0..MaxWideRows}
    \cup TwoColumns(TRUE, 0)

\* the hints: any linked columns, any explicitly typed columns, any time
\* index, a secondary time index of at most one key
Hints(names) ==
    [link_vars : SUBSET names,
     variable_types : SUBSET names,
     time_index : names \cup {None},
     secondary_time_index : {<<>>} \cup {<<c>> : c \in names}]

Perms(n) == {p \in SeqsOf(1..n, n) : \A i \in 1..n : \A j \in 1..n : i # j => p[i] # p[j]}

InferInit ==
    /\ df \in InferFrames
    /\ \E h \in Hints(Range(df.columns)) :
          call = [op |-> "infer_variable_types", h |-> h]
    /\ ret = NoRet

InferVariableTypes ==
    /\ call.op = "infer_variable_types"
    /\ ret.of = "none"
    /\ \E rng \in [Range(df.columns) -> Perms(Len(df.index))] :
          LET r == infer_variable_types(df, call.h, rng)
          IN  ret' = [of |-> "infer_variable_types", err |-> r.err,
                      inferred_types |-> r.inferred_types,
                      parsed |-> r.parsed, sampled |-> r.sampled]
    /\ UNCHANGED <<df, call>>

InferNext == InferVariableTypes

SpecInfer == InferInit /\ [][InferNext]_vars

(***************************************************************************)
(* generate_statistics(data, variable_types)                               *)
(* The values of variable_types are Python objects: the variable type      *)
(* classes convert_vtypes returns, or whatever else the caller put there.  *)
(* The statistics of a column are a record with the keys the code sets;    *)
(* a mean is the pair [sum, n], a standard deviation the pair [num, den]   *)
(* of its square, a quartile four times its value.                         *)
(***************************************************************************)
Class(name) == [py |-> "class", name |-> name]
Instance(name) == [py |-> "instance", name |-> name]

IsClass(obj) == obj.py = "class"

\* isinstance(obj, cls): a class object is an instance of type, not of cls
IsInstance(obj, cls) == obj.py = "instance" /\ IsSubclass(obj.name, cls)

RECURSIVE Insert(_, _)
Insert(x, sorted) ==
    IF sorted = <<>> THEN <<x>>
    ELSE IF x <= Head(sorted) THEN <<x>> \o sorted
    ELSE <<Head(sorted)>> \o Insert(x, Tail(sorted))

RECURSIVE Sort(_)
Sort(xs) == IF xs = <<>> THEN <<>> ELSE Insert(Head(xs), Sort(Tail(xs)))

RECURSIVE Sum(_)
Sum(xs) == IF xs = <<>> THEN 0 ELSE Head(xs) + Sum(Tail(xs))

\* the numbers of a float column, missing values dropped
Numbers(vals) == LET d == DropNa(vals) IN [i \in DOMAIN d |-> d[i].v]

\* four times Series.quantile(q4 / 4), linear interpolation between the
\* order statistics around position (n - 1) * q
Quantile4(vals, q4) ==
    LET xs == Sort(Numbers(vals))
        n == Len(xs)
        h4 == (n - 1) * q4
        lo == h4 \div 4
        frac4 == h4 % 4
    IN  IF n = 0 THEN NaN
        ELSE IF frac4 = 0 THEN 4 * xs[lo + 1]
        ELSE 4 * xs[lo + 1] + frac4 * (xs[lo + 2] - xs[lo + 1])

\* column.quantile([0.25, 0.5, 0.75]).tolist()
QuantValues(vals) == <<Quantile4(vals, 1), Quantile4(vals, 2), Quantile4(vals, 3)>>

\* lines 285-287: the positions of quant_values the three quartiles read
FirstQuartileIndex == 0
SecondQuartileIndex == 2
ThirdQuartileIndex == 2

SecondQuartileOf_Median(quant_values) == quant_values[1 + 1]

FirstQuartileOf(quant_values) == quant_values[FirstQuartileIndex + 1]
SecondQuartileOf(quant_values) == quant_values[SecondQuartileIndex + 1]
ThirdQuartileOf(quant_values) == quant_values[ThirdQuartileIndex + 1]

\* Series.max(), .min(), .mean(), .std() of the non-missing values
MaxOf(vals) ==
    LET d == Range(DropNa(vals))
    IN  IF d = {} THEN NaN ELSE CHOOSE c \in d : \A y \in d : y.v <= c.v
MinOf(vals) ==
    LET d == Range(DropNa(vals))
    IN  IF d = {} THEN NaN ELSE CHOOSE c \in d : \A y \in d : c.v <= y.v
MeanOf(vals) ==
    LET xs == Numbers(vals)
    IN  IF xs = <<>> THEN NaN ELSE [sum |-> Sum(xs), n |-> Len(xs)]
StdOf(vals) ==
    LET xs == Numbers(vals)
        n == Len(xs)
        sq == [i \in DOMAIN xs |-> xs[i] * xs[i]]
    IN  IF n < 2 THEN NaN
        ELSE [num |-> n * Sum(sq) - Sum(xs) * Sum(xs), den |-> n * (n - 1)]

\* Series.count(), .nunique(), .isna().sum()
CountOf(vals) == Len(DropNa(vals))
NUniqueOf(vals) == Cardinality(Range(DropNa(vals)))
NanCount(vals) == Len(vals) - Len(DropNa(vals))

\* Series.value_counts().get(value, 0)
ValueCount(vals, value) == Cardinality({i \in DOMAIN vals : vals[i] = value})

\* Series.mode(): the most frequent non-missing values, sorted
KindRank(c) ==
    CASE c.k = "bool" -> 0 [] c.k = "num" -> 1 [] c.k = "numstr" -> 2
      [] c.k = "datestr" -> 3 [] c.k = "str" -> 4 [] c.k = "ts" -> 5
      [] c.k = "pair" -> 6 [] OTHER -> 7
CellLess(a, b) == KindRank(a) < KindRank(b) \/ (KindRank(a) = KindRank(b) /\ a.v < b.v)
ModeValues(vals) ==
    LET d == Range(DropNa(vals))
    IN  {x \in d : \A y \in d : ValueCount(vals, y) <= ValueCount(vals, x)}
FirstMode(vals) ==
    CHOOSE x \in ModeValues(vals) : \A y \in ModeValues(vals) : y = x \/ CellLess(x, y)

\* column.astype(float) on one value, and whether it raises
FloatParses(c) == c.k \in {"num", "numstr", "bool", "nan"}
AsTypeFloat(col) ==
    [dtype |-> "float64", vals |-> [i \in DOMAIN col.vals |-> ToNumericCell(col.vals[i])]]

\* column.astype(bool)
AsTypeBoolColumn(col) ==
    [dtype |-> "bool", vals |-> [i \in DOMAIN col.vals |-> AsTypeBool(col.vals[i])]]

\* column.astype("category")
AsTypeCategory(col) == [col EXCEPT !.dtype = "category"]

\* lines 275-292: the type-specific statistics of one column, and the
\* column as the branch leaves it; err is the exception a cast raises
TypeSpecific(column, v_type) ==
    IF v_type = Class("Boolean") THEN
        LET c == AsTypeBoolColumn(column)
        IN  [err |-> "none", column |-> c,
             values |-> [num_false |-> ValueCount(c.vals, PyFalse),
                         num_true |-> ValueCount(c.vals, PyTrue)]]
    ELSE IF v_type = Class("Numeric") THEN
        IF \E i \in DOMAIN column.vals : ~FloatParses(column.vals[i])
        THEN [err |-> "ValueError", column |-> column, values |-> <<>>]
        ELSE LET c == AsTypeFloat(column)
                 quant_values == QuantValues(c.vals)
             IN  [err |-> "none", column |-> c,
                  values |-> [max |-> MaxOf(c.vals), min |-> MinOf(c.vals),
                              mean |-> MeanOf(c.vals), std |-> StdOf(c.vals),
                              first_quartile |-> FirstQuartileOf(quant_values),
                              second_quartile |-> SecondQuartileOf(quant_values),
                              third_quartile |-> ThirdQuartileOf(quant_values)]]
    ELSE IF v_type = Class("Discrete") THEN
        [err |-> "none", column |-> AsTypeCategory(column), values |-> <<>>]
    ELSE IF ~IsClass(v_type) THEN
        \* issubclass() arg 1 must be a class
        [err |-> "TypeError", column |-> column, values |-> <<>>]
    ELSE IF IsSubclass(v_type.name, "Discrete") THEN
        [err |-> "none", column |-> AsTypeCategory(column), values |-> <<>>]
    ELSE IF v_type = Class("Datetime") THEN
        IF ~DatetimeParsesAll(column.vals)
        THEN [err |-> "ValueError", column |-> column, values |-> <<>>]
        ELSE LET c == ToDatetime(column)
             IN  [err |-> "none", column |-> c,
                  values |-> [max |-> MaxOf(c.vals), min |-> MinOf(c.vals),
                              mean |-> MeanOf(c.vals)]]
    ELSE [err |-> "none", column |-> column, values |-> <<>>]

\* column.agg(applicable).to_dict()
Agg(vals, applicable) ==
    [name \in Range(applicable) |->
        IF name = "count" THEN CountOf(vals) ELSE NUniqueOf(vals)]

\* list.remove(x): the list without its first x
RECURSIVE Remove(_, _)
Remove(list, x) ==
    IF list = <<>> THEN <<>>
    ELSE IF Head(list) = x THEN Tail(list)
    ELSE <<Head(list)>> \o Remove(Tail(list), x)

\* lines 274-302: the body of the loop for one item of variable_types.
\* acc is [err, common, statistics]: common is the list COMMON_STATISTICS,
\* which applicable aliases; applicable.remove() changes that list and
\* returns None, and column.agg(None) raises.
ColumnStatistics(acc, d, e) ==
    IF acc.err # "none" THEN acc
    ELSE IF e.id \notin Range(d.columns) THEN [acc EXCEPT !.err = "KeyError"]
    ELSE LET t == TypeSpecific(d.data[e.id], e.type)
             removes == IsInstance(e.type, "LatLong")
             common == IF removes THEN Remove(acc.common, "nunique") ELSE acc.common
         IN  IF t.err # "none" THEN [acc EXCEPT !.err = t.err]
             ELSE IF removes THEN [acc EXCEPT !.err = "TypeError", !.common = common]
             ELSE LET modes == ModeValues(t.column.vals)
                      values ==
                          t.values @@ Agg(t.column.vals, common)
                          @@ [nan_count |-> NanCount(t.column.vals)]
                          @@ (IF modes # {} THEN [mode |-> FirstMode(t.column.vals)]
                              ELSE <<>>)
                          @@ [variable_type |-> e.type.name]
                  IN  [acc EXCEPT !.statistics = (e.id :> values) @@ acc.statistics]

RECURSIVE StatisticsOf(_, _, _)
StatisticsOf(acc, d, items) ==
    IF items = <<>> THEN acc
    ELSE StatisticsOf(ColumnStatistics(acc, d, Head(items)), d, Tail(items))

\* data is an EntitySet, or a dataset: an Entity's, a pandas frame, or a
\* dask frame, which is computed first
AnEntitySet == [entities |-> <<>>]
IsEntitySet(data) == DOMAIN data = {"entities"}

generate_statistics(data, variable_types) ==
    IF IsEntitySet(data)
    THEN [err |-> "TypeError", common |-> <<"count", "nunique">>, statistics |-> <<>>]
    ELSE StatisticsOf([err |-> "none", common |-> <<"count", "nunique">>,
                       statistics |-> <<>>],
                      [data EXCEPT !.lazy = FALSE], variable_types)

(***************************************************************************)
(* Statistics: the datasets and type maps generate_statistics is called    *)
(* with, and the call.                                                     *)
(***************************************************************************)
StatCellsOf(dtype) ==
    CASE dtype = "object" -> {NaN, Pair(1), NanPair, Str(1), NumStr(1)}
      [] dtype = "float64" -> {Num(0), Num(1), NaN}
      [] dtype = "bool" -> {PyFalse, PyTrue}
      [] dtype = "datetime64[ns]" -> {Ts(1), NaN}

StatDtypes == {"object", "float64", "bool", "datetime64[ns]"}

StatColumnsOf(n) ==
    UNION {{[dtype |-> t, vals |-> v] : v \in SeqsOf(StatCellsOf(t), n)} : t \in StatDtypes}

UniformStatColumnsOf(n) ==
    {col \in StatColumnsOf(n) : Cardinality(Range(col.vals)) <= 1}

\* an EntitySet, pandas and dask datasets of one column "a" with any values
\* in up to MaxRows rows, and pandas datasets of two columns "a", "b" with
\* one value per column in up to MaxWideRows rows
StatData ==
    {AnEntitySet}
    \cup UNION {{Frame(lazy, RangeIndex(n), <<"a">>, [c \in {"a"} |-> x])
                   : lazy \in BOOLEAN, x \in StatColumnsOf(n)}
                : n \in 0..MaxRows}
    \cup UNION {{Frame(FALSE, RangeIndex(n), <<"a", "b">>,
                       [c \in {"a", "b"} |-> IF c = "a" THEN x ELSE y])
                   : x \in UniformStatColumnsOf(n), y \in UniformStatColumnsOf(n)}
                : n \in 0..MaxWideRows}

\* the values of variable_types: the variable type classes, and an
\* instance of one
StatTypes == {Class(t) : t \in VariableTypes} \cup {Instance("LatLong")}

StatItem(id, type) == [id |-> id, type |-> type]

\* the maps over the columns "a", "b", in either order of the items
StatMaps ==
    {<<>>}
    \cup {<<StatItem(c, t)>> : c \in Range(ColNames), t \in StatTypes}
    \cup {m \in {<<StatItem(c, t), StatItem(e, u)>>
                   : c \in Range(ColNames), e \in Range(ColNames),
                     t \in StatTypes, u \in StatTypes}
            : m[1].id # m[2].id}

StatInit ==
    /\ df \in StatData
    /\ \E m \in StatMaps : call = [op |-> "generate_statistics", variable_types |-> m]
    /\ ret = NoRet

GenerateStatistics ==
    /\ call.op = "generate_statistics"
    /\ ret.of = "none"
    /\ LET r == generate_statistics(df, call.variable_types)
       IN  ret' = [of |-> "generate_statistics", err |-> r.err,
                   statistics |-> r.statistics]
    /\ UNCHANGED <<df, call>>

StatNext == GenerateStatistics

SpecStats == StatInit /\ [][StatNext]_vars

(***************************************************************************)
(* Claims about the Type Inference Engine and the Datetime Detector.       *)
(***************************************************************************)
InferReturned == ret.of = "infer_variable_types" /\ ret.err = "none"

\* the columns inference has to type
Unlabeled == {c \in Range(df.columns) : c \notin call.h.variable_types}

Assigned(c, type) == <<c, type>> \in ret.inferred_types

AssumedDatetime(c) ==
    c = call.h.time_index
    \/ (call.h.secondary_time_index # <<>> /\ c = call.h.secondary_time_index[1])

\* every unlabeled column has exactly one type in the map returned
OneTypeEach ==
    \A c \in Unlabeled : Cardinality({t \in VariableTypes : Assigned(c, t)}) = 1

\* C2 as stated: every column in link_vars and not in the explicit map is
\* assigned Categorical, whatever its storage and whatever time_index and
\* secondary_time_index are.
C2_LinkedAlwaysCategorical ==
    InferReturned
    => \A c \in Unlabeled : c \in call.h.link_vars => Assigned(c, "Categorical")

\* C2 amended: every column in link_vars and not in the explicit map is
\* assigned Categorical whatever its storage, unless its name is the time
\* index or the first secondary-time-index key; such a column is assigned
\* Datetime when col_is_datetime accepts it and Numeric otherwise.
C2_LinkedCategoricalUnlessTimeIndex ==
    InferReturned
    => /\ OneTypeEach
       /\ \A c \in Unlabeled :
             c \in call.h.link_vars
             => Assigned(c, IF ~AssumedDatetime(c) THEN "Categorical"
                            ELSE IF col_is_datetime(df.data[c]).is THEN "Datetime"
                            ELSE "Numeric")

\* C2 witness: a linked column of timestamp storage, not a time index,
\* assigned Categorical.
C2_Witness ==
    /\ InferReturned
    /\ \E c \in Unlabeled :
          /\ c \in call.h.link_vars
          /\ ~AssumedDatetime(c)
          /\ df.data[c].dtype = "datetime64[ns]"
          /\ Len(df.data[c].vals) > 0
          /\ Assigned(c, "Categorical")

TimestampStorage(c) == df.data[c].dtype = "datetime64[ns]"

\* C8 as stated: for a column of timestamp storage col_is_datetime returns
\* true without a parse, and inference assigns it Datetime without drawing
\* a sample, whichever hint sets its name belongs to.
C8_TimestampAlwaysDatetime ==
    InferReturned
    => \A c \in Unlabeled :
          TimestampStorage(c)
          => /\ col_is_datetime(df.data[c]) = [is |-> TRUE, parsed |-> FALSE]
             /\ Assigned(c, "Datetime")
             /\ c \notin ret.sampled

\* C8 amended: for a column of timestamp storage col_is_datetime returns
\* true without a parse, and inference, drawing no sample and attempting
\* no parse, assigns it Datetime, unless the column is in link_vars and is
\* neither the time index nor the first secondary-time-index key: then it
\* is assigned Categorical.
C8_TimestampDatetimeUnlessLinked ==
    InferReturned
    => \A c \in Unlabeled :
          TimestampStorage(c)
          => /\ col_is_datetime(df.data[c]) = [is |-> TRUE, parsed |-> FALSE]
             /\ Assigned(c, IF c \in call.h.link_vars /\ ~AssumedDatetime(c)
                            THEN "Categorical" ELSE "Datetime")
             /\ c \notin ret.sampled
             /\ c \notin ret.parsed

\* C8 witness: a column of timestamp storage whose first value is missing,
\* which is the time index and a linked column, assigned Datetime.
C8_Witness ==
    /\ InferReturned
    /\ \E c \in Unlabeled :
          /\ TimestampStorage(c)
          /\ Len(df.data[c].vals) > 0
          /\ IsNull(df.data[c].vals[1])
          /\ c \in call.h.link_vars
          /\ c = call.h.time_index
          /\ Assigned(c, "Datetime")

\* a column no classification rule matches
MatchesNoRule(c) ==
    /\ ~AssumedDatetime(c)
    /\ c \notin call.h.link_vars
    /\ df.data[c].dtype \notin {"object", "bool", "category"} \cup PandasNumerics
    /\ ~col_is_datetime(df.data[c]).is

\* C9: every column that is not in the explicit map and matches no
\* classification rule (an empty column) is assigned Unknown, wherever it
\* stands in the column order and whatever was assigned before it.
C9_UnmatchedIsUnknown ==
    InferReturned
    => \A c \in Unlabeled :
          MatchesNoRule(c) /\ Len(df.data[c].vals) = 0 => Assigned(c, "Unknown")

\* C10: a non-empty column that reaches the last sampling rule is assigned
\* Numeric, never Categorical, whatever the sample drawn.
C10_LastRuleAlwaysNumeric ==
    InferReturned
    => \A c \in Unlabeled :
          MatchesNoRule(c) /\ Len(df.data[c].vals) # 0
          => /\ c \in ret.sampled
             /\ Assigned(c, "Numeric")
             /\ ~Assigned(c, "Categorical")

\* C10 witness: a column of time-difference storage with a repeated value
\* (the sample is smaller than the column) reached the rule and is Numeric.
C10_Witness ==
    /\ InferReturned
    /\ \E c \in Unlabeled :
          /\ MatchesNoRule(c)
          /\ NUnique(df.data[c].vals) < Len(df.data[c].vals)
          /\ c \in ret.sampled
          /\ Assigned(c, "Numeric")

(***************************************************************************)
(* Claims about the Statistics Engine.                                     *)
(***************************************************************************)
StatsReturned == ret.of = "generate_statistics" /\ ret.err = "none"

StatItems == Range(call.variable_types)

Keys(id) == DOMAIN ret.statistics[id]

\* C6: the statistics of every column whose resolved type is LatLong hold
\* no nunique entry, and those of every column of another type hold count
\* and nunique, also when a LatLong column was processed before it.
C6_LatLongOmitsNUnique ==
    StatsReturned
    => \A e \in StatItems :
          IF IsSubclass(e.type.name, "LatLong")
          THEN "nunique" \notin Keys(e.id)
          ELSE {"count", "nunique"} \subseteq Keys(e.id)

\* the Numeric column as the statistics are computed of it
FloatValues(id) == AsTypeFloat(df.data[id]).vals

IsConvert == call.op = "convert_variable_data"
IsConvertAll == call.op = "convert_all_variable_data"

\* C1: for a pandas or dask dataset and a column with at least one
\* non-missing value before the call, convert_variable_data with target
\* Numeric never returns normally with the column holding no non-missing
\* value.
C1_NumericNeverAllMissing ==
    (/\ IsConvert
     /\ call.new_type = "Numeric"
     /\ NonNull(call.before.data[call.column_id]) > 0
     /\ ret.err = "none")
    => NonNull(df.data[call.column_id]) > 0

\* C3: convert_variable_data with target Boolean on a non-empty column
\* gives, position by position, true for true_val or native true, false
\* for false_val or native false, and a missing value for anything else.
C3_BooleanLookup ==
    (/\ IsConvert
     /\ call.new_type = "Boolean"
     /\ ret.err = "none"
     /\ Len(call.before.data[call.column_id].vals) > 0)
    => \A i \in DOMAIN call.before.data[call.column_id].vals :
          LET x == call.before.data[call.column_id].vals[i]
              y == df.data[call.column_id].vals[i]
              isTrue == PyEq(x, call.kwargs.true_val) \/ PyEq(x, PyTrue)
              isFalse == PyEq(x, call.kwargs.false_val) \/ PyEq(x, PyFalse)
          IN  /\ isTrue => y = PyTrue
              /\ isFalse => y = PyFalse
              /\ ~isTrue /\ ~isFalse => IsNull(y)

\* the items of the map whose column the dataset has
ItemsOf(d, variable_types) ==
    {e \in Range(variable_types) : e.id \in Range(d.columns)}

\* storage already recognised for the target type
Compatible(type, dtype) ==
    \/ IsSubclass(type, "Numeric") /\ dtype \in PandasNumerics
    \/ IsSubclass(type, "Discrete") /\ dtype = PandasCategorical
    \/ IsSubclass(type, "Datetime") /\ dtype \in PandasDatetimes

\* C4: after convert_all_variable_data succeeds, running it again on the
\* result with the same map succeeds and changes no column; a column whose
\* storage is already recognised for its target type is not handed to
\* convert_variable_data, in the first run or in the second, and keeps its
\* values and storage type.
C4_ConvertAllIdempotent ==
    (IsConvertAll /\ ret.err = "none")
    => LET again == convert_all_variable_data(df, call.variable_types)
       IN  /\ again.err = "none"
           /\ again.df = df
           /\ \A e \in ItemsOf(df, call.variable_types) :
                 /\ Compatible(e.type, df.data[e.id].dtype)
                       => e.id \notin Range(again.calls)
                 /\ Compatible(e.type, call.before.data[e.id].dtype)
                       => /\ e.id \notin Range(ret.calls)
                          /\ df.data[e.id] = call.before.data[e.id]

\* C4 witness: a run of the driver that converted a column (the storage
\* changed) and returned.
C4_Witness ==
    /\ IsConvertAll
    /\ ret.err = "none"
    /\ Len(ret.calls) > 0
    /\ \E c \in Range(df.columns) :
          /\ df.data[c].dtype # call.before.data[c].dtype
          /\ Compatible("Numeric", df.data[c].dtype)

\* C5: after convert_all_variable_data returns for a map that assigns
\* LatLong to a column of a pandas dataset, under any row labelling, every
\* entry that was a scalar missing value is the pair (missing, missing),
\* every other entry is unchanged, and a warning was emitted exactly when
\* an entry was missing.
C5_LatLongNoBareMissing ==
    (IsConvertAll /\ ret.err = "none" /\ ~call.before.lazy)
    => \A e \in ItemsOf(df, call.variable_types) :
          e.type = "LatLong"
          => LET old == call.before.data[e.id].vals
                 new == df.data[e.id].vals
             IN  /\ \A i \in DOMAIN old :
                       new[i] = IF IsNull(old[i]) THEN NanPair ELSE old[i]
                 /\ (e.id \in ret.warned) <=> HasNans(old)

====
